---- MODULE Spec2Model ----
(***************************************************************************)
(* Model of ballTracer's main.py: the capture / mask / contour / annotate  *)
(* / display loop of main, the helpers get_min_contour_area, process_frame *)
(* and draw_contours, and the root logger's handlers.                      *)
(*                                                                         *)
(* Floating point values (areas, radii, coordinates, moments, the area     *)
(* threshold) are exact rationals [num, den] with den > 0.  The picture    *)
(* content of a frame is the list of colour blobs it shows (after blur and *)
(* morphological opening); each blob carries the measurements the cv2      *)
(* primitives report for its contour.                                      *)
(***************************************************************************)
EXTENDS Integers, Sequences, FiniteSets, TLC

(* ------------------------------ bounds --------------------------------- *)
\* number of cap.read() calls a run may issue
MaxReads == 2
\* number of blobs in one frame
MaxCnts == 2

(* ------------------------- program constants --------------------------- *)
TargetWidth == 640
TargetHeight == 480
AreaDivisor == 1000
RadiusFloor == 10
ByteMask == 256
OrdQ == 113
OutlineThickness == 5
DotRadius == 5
DotThickness == -1

(* ------------------------------ rationals ------------------------------ *)
R(n, d) == [num |-> n, den |-> d]
RatGT(a, b) == a.num * b.den > b.num * a.den
RatGE(a, b) == a.num * b.den >= b.num * a.den
RatEq(a, b) == a.num * b.den = b.num * a.den
\* Python's float / float for a non-zero divisor
RatDiv(a, b) ==
    IF b.num > 0 THEN R(a.num * b.den, a.den * b.num)
                 ELSE R(-(a.num * b.den), a.den * (-b.num))
\* Python's int(float): truncation toward zero
int(a) ==
    IF a.num >= 0 THEN a.num \div a.den ELSE -((-a.num) \div a.den)

Range(s) == {s[i] : i \in 1..Len(s)}

(* --------------------------- colour table ------------------------------ *)
color_bounds ==
    [ blue   |-> [lower |-> <<100, 50, 50>>,   upper |-> <<130, 255, 255>>],
      red    |-> [lower |-> <<0, 100, 100>>,   upper |-> <<10, 255, 255>>],
      green  |-> [lower |-> <<40, 50, 50>>,    upper |-> <<80, 255, 255>>],
      yellow |-> [lower |-> <<20, 100, 100>>,  upper |-> <<30, 255, 255>>],
      orange |-> [lower |-> <<5, 100, 100>>,   upper |-> <<15, 255, 255>>],
      black  |-> [lower |-> <<0, 0, 0>>,       upper |-> <<180, 255, 30>>],
      white  |-> [lower |-> <<0, 0, 200>>,     upper |-> <<180, 30, 255>>] ]

\* color_bounds[chosen_color]: the entry, or a KeyError
\* variant: a missing key silently falls back to the blue entry
LookupDefaulting(table, k) ==
    IF k \in DOMAIN table THEN [raised |-> "none", entry |-> table[k]]
                          ELSE [raised |-> "none", entry |-> table["blue"]]
Lookup(table, k) ==
    IF k \in DOMAIN table THEN [raised |-> "none", entry |-> table[k]]
                          ELSE [raised |-> "KeyError", entry |-> table["blue"]]

\* cv2.inRange on one HSV sample: inclusive on both ends, every channel
inRange(hsv, lower, upper) ==
    \A ch \in 1..3 : lower[ch] <= hsv[ch] /\ hsv[ch] <= upper[ch]

(* ------------------------ get_min_contour_area ------------------------- *)
\* variant: floor division (//) in place of true division
get_min_contour_area_floor(frame_width, frame_height) ==
    R((frame_width * frame_height) \div AreaDivisor, 1)
get_min_contour_area(frame_width, frame_height) ==
    R(frame_width * frame_height, AreaDivisor)

(* --------------------------- blobs and frames -------------------------- *)
Contour(area, x, y, radius, m00, m10, m01) ==
    [area |-> area, x |-> x, y |-> y, radius |-> radius,
     m00 |-> m00, m10 |-> m10, m01 |-> m01]
Blob(hsv, c) == [hsv |-> hsv, contour |-> c]

BlueHSV == <<115, 200, 200>>
GreenHSV == <<60, 200, 200>>

\* a disk of radius 50 centred at (320, 240)
DiskBlob == Blob(BlueHSV, Contour(R(7850, 1), R(320, 1), R(240, 1), R(50, 1),
                                  R(7850, 1), R(2512000, 1), R(1884000, 1)))
\* just above both thresholds: area 308, radius 10.5, centroid (100.5, 50)
SmallBlob == Blob(BlueHSV, Contour(R(308, 1), R(201, 2), R(50, 1), R(21, 2),
                                   R(308, 1), R(30954, 1), R(15400, 1)))
\* passes the area test, radius exactly 10
Radius10Blob == Blob(BlueHSV, Contour(R(308, 1), R(300, 1), R(200, 1), R(10, 1),
                                      R(308, 1), R(92400, 1), R(61600, 1)))
\* area just below the 640x480 threshold, radius 12
Area307Blob == Blob(BlueHSV, Contour(R(307, 1), R(200, 1), R(100, 1), R(12, 1),
                                     R(307, 1), R(61400, 1), R(30700, 1)))
\* a thin line: zero area, zero moments, long enclosing circle
LineBlob == Blob(BlueHSV, Contour(R(0, 1), R(400, 1), R(300, 1), R(40, 1),
                                  R(0, 1), R(0, 1), R(0, 1)))
\* a large disk of another colour
GreenBlob == Blob(GreenHSV, Contour(R(5000, 1), R(150, 1), R(350, 1), R(40, 1),
                                    R(5000, 1), R(750000, 1), R(1750000, 1)))
\* passes both tests although the moments primitive reports m00 = 0
DegenerateBlob == Blob(BlueHSV, Contour(R(400, 1), R(500, 1), R(400, 1), R(12, 1),
                                        R(0, 1), R(0, 1), R(0, 1)))

\* blobs whose zeroth moment equals their contour area, as cv2 computes both
Blobs == {DiskBlob, SmallBlob, Radius10Blob, LineBlob, GreenBlob}
\* blobs of an environment where cv2.moments may also report m00 = 0
BlobsEnv == {DiskBlob, SmallBlob, Radius10Blob, LineBlob, DegenerateBlob}

\* the pictures a camera can deliver: lists of distinct blobs
Scenes(B) ==
    {s \in UNION {[1..n -> B] : n \in 0..MaxCnts} :
        \A i, j \in 1..Len(s) : i # j => s[i] # s[j]}

\* the pictures of the program's camera, and those of the wider environment
ProgramScenes == Scenes(Blobs)
EnvScenes == Scenes(BlobsEnv)

\* numpy shapes (rows, cols, channels) the camera delivers natively
NativeShapes == {<<480, 640, 3>>, <<720, 1280, 3>>, <<240, 320, 3>>}

\* what cap.read() yields when no frame is returned
NoFrame == [id |-> 0, shape |-> <<0, 0, 0>>, scene |-> <<>>, marks |-> <<>>]
IsNone(f) == f.id = 0

\* the value of a local that has not been bound yet
NotBound == R(-1, 1)

\* cv2.resize(frame, (width, height)): same picture, new shape
resize(f, width, height) ==
    [f EXCEPT !.shape = <<height, width, f.shape[3]>>]

(* ---------------------------- cv2 primitives --------------------------- *)
contourArea(c) == c.area
minEnclosingCircle(c) == [x |-> c.x, y |-> c.y, radius |-> c.radius]
moments(c) == [m00 |-> c.m00, m10 |-> c.m10, m01 |-> c.m01]
\* cv2.circle draws in place: one more mark on the frame
circle(f, center, radius, color, thickness) ==
    [f EXCEPT !.marks = Append(@, [center |-> center, radius |-> radius,
                                   color |-> color, thickness |-> thickness])]

(* ------------------------------- logger -------------------------------- *)
\* the root logger's handlers, in the order they were added: basicConfig's
\* stream handler, the file handler fh, the stream handler ch
handlers == <<"stderr", "app.log", "stderr">>
\* '%(name)s - %(levelname)s - %(message)s'
formatter(msg) == [name |-> "root", levelname |-> "INFO", message |-> msg]

RECURSIVE emit(_, _, _)
emit(streams, line, h) ==
    IF h > Len(handlers) THEN streams
    ELSE emit([streams EXCEPT ![handlers[h]] = Append(@, line)], line, h + 1)
\* logger.info(msg): every handler writes the formatted record to its stream
logger_info(streams, msg) == emit(streams, formatter(msg), 1)

RECURSIVE log_all(_, _, _)
log_all(streams, msgs, i) ==
    IF i > Len(msgs) THEN streams
    ELSE log_all(logger_info(streams, msgs[i]), msgs, i + 1)

(* ---------------------------- draw_contours ---------------------------- *)
\* variants: the area test left out; the radius test made inclusive
AreaTestDropped(area, min_area) == TRUE
AreaTest(area, min_area) == RatGT(area, min_area)
RadiusTestInclusive(radius) == RatGE(radius, R(RadiusFloor, 1))
RadiusTest(radius) == RatGT(radius, R(RadiusFloor, 1))

\* the loop of draw_contours from contour i on; st = [frame, msgs, raised]
RECURSIVE draw_from(_, _, _, _)
draw_from(st, contours, min_area, i) ==
    IF i > Len(contours) THEN st
    ELSE
      LET c == contours[i]
          area == contourArea(c)
      IN
      IF ~AreaTest(area, min_area) THEN draw_from(st, contours, min_area, i + 1)
      ELSE
        LET ec == minEnclosingCircle(c) IN
        IF ~RadiusTest(ec.radius) THEN draw_from(st, contours, min_area, i + 1)
        ELSE
          LET f1 == circle(st.frame, <<int(ec.x), int(ec.y)>>, int(ec.radius),
                           <<0, 255, 255>>, OutlineThickness)
              M == moments(c)
          IN
          IF M.m00.num = 0
          THEN [frame |-> f1, msgs |-> st.msgs, raised |-> "ZeroDivisionError"]
          ELSE
            LET center == <<int(RatDiv(M.m10, M.m00)), int(RatDiv(M.m01, M.m00))>>
                f2 == circle(f1, center, DotRadius, <<0, 0, 255>>, DotThickness)
            IN draw_from([frame |-> f2,
                          msgs |-> Append(st.msgs, [text |-> "Center coordinates",
                                                    center |-> center]),
                          raised |-> "none"],
                         contours, min_area, i + 1)

draw_contours(f, contours, min_area) ==
    draw_from([frame |-> f, msgs |-> <<>>, raised |-> "none"], contours, min_area, 1)

(* -------------------------------- state -------------------------------- *)
VARIABLES
    pc,                 \* where main is
    cap,                \* the camera handle: "none", "open", "released"
    capOpens,           \* how many times cv2.VideoCapture was called
    windows,            \* the display windows: "none", "open", "closed"
    chosen_color,
    frame,
    min_contour_area,
    mask,               \* the blobs left in the cleaned mask
    cnts,
    shown,              \* the frame last handed to cv2.imshow
    key,                \* the value cv2.waitKey last returned
    streams,            \* the lines written to stderr and to app.log
    reads,              \* how many times cap.read was called
    fault,              \* the exception that left main, or "none"
    stages,             \* the stages run so far in the current iteration
    logStart            \* the lengths of the streams when the iteration began

vars == <<pc, cap, capOpens, windows, chosen_color, frame, min_contour_area, mask,
          cnts, shown, key, streams, reads, fault, stages, logStart>>

StageOrder == <<"ACQUIRE", "BUILD_MASK", "FILTER_CONTOURS", "ANNOTATE", "DISPLAY",
                "CHECK_EXIT">>

InitWith(colors) ==
    /\ pc = "START"
    /\ cap = "none"
    /\ capOpens = 0
    /\ windows = "none"
    /\ chosen_color \in colors
    /\ frame = NoFrame
    /\ min_contour_area = NotBound
    /\ mask = <<>>
    /\ cnts = <<>>
    /\ shown = NoFrame
    /\ key = -1
    /\ streams = [h \in Range(handlers) |-> <<>>]
    /\ reads = 0
    /\ fault = "none"
    /\ stages = <<>>
    /\ logStart = [h \in Range(handlers) |-> 0]

Init == InitWith({"blue"})
\* the colour constant of main edited to another name, valid or not
ChosenColors == {"blue", "purple"}
InitEnv == InitWith(ChosenColors)

\* values cv2.waitKey(1) can return: no key, 'a', 'q', 'q' with a high bit set
Keys == {-1, 97, 113, 369}

\* cv2.waitKey(1) & 0xFF == ord('q')
\* variant: the key compared without masking its low byte
IsQuitNoMask(k) == k = OrdQ
IsQuit(k) == k % ByteMask = OrdQ

(* ------------------------------- actions ------------------------------- *)
\* main, line 83: cap = cv2.VideoCapture(0)
OpenCamera ==
    /\ pc = "START"
    /\ cap' = "open"
    /\ capOpens' = capOpens + 1
    /\ pc' = "ACQUIRE"
    /\ UNCHANGED <<windows, chosen_color, frame, min_contour_area, mask, cnts, shown,
                   key, streams, reads, fault, stages, logStart>>

\* main, lines 85-91: read, leave the loop on no frame, else resize and threshold
\* variant: a failed read continues the loop instead of leaving it
AcquireRetry(S) ==
    /\ pc = "ACQUIRE"
    /\ reads < MaxReads
    /\ reads' = reads + 1
    /\ stages' = <<"ACQUIRE">>
    /\ logStart' = [h \in DOMAIN streams |-> Len(streams[h])]
    /\ \E got \in {NoFrame} \cup
                  {[id |-> reads + 1, shape |-> sh, scene |-> sc, marks |-> <<>>] :
                       sh \in NativeShapes, sc \in S} :
         IF IsNone(got)
         THEN /\ frame' = got
              /\ pc' = "ACQUIRE"
              /\ UNCHANGED min_contour_area
         ELSE LET f == resize(got, TargetWidth, TargetHeight) IN
              /\ frame' = f
              /\ min_contour_area' = get_min_contour_area(f.shape[2], f.shape[1])
              /\ pc' = "BUILD_MASK"
    /\ UNCHANGED <<cap, capOpens, windows, chosen_color, mask, cnts, shown, key,
                   streams, fault>>
Acquire(S) ==
    /\ pc = "ACQUIRE"
    /\ reads < MaxReads
    /\ reads' = reads + 1
    /\ stages' = <<"ACQUIRE">>
    /\ logStart' = [h \in DOMAIN streams |-> Len(streams[h])]
    /\ \E got \in {NoFrame} \cup
                  {[id |-> reads + 1, shape |-> sh, scene |-> sc, marks |-> <<>>] :
                       sh \in NativeShapes, sc \in S} :
         IF IsNone(got)
         THEN /\ frame' = got
              /\ pc' = "CLEANUP"
              /\ UNCHANGED min_contour_area
         ELSE LET f == resize(got, TargetWidth, TargetHeight) IN
              /\ frame' = f
              /\ min_contour_area' = get_min_contour_area(f.shape[2], f.shape[1])
              /\ pc' = "BUILD_MASK"
    /\ UNCHANGED <<cap, capOpens, windows, chosen_color, mask, cnts, shown, key,
                   streams, fault>>

\* process_frame, lines 48-52: blur, HSV, range threshold, erode, dilate
BuildMask ==
    /\ pc = "BUILD_MASK"
    /\ stages' = Append(stages, "BUILD_MASK")
    /\ LET e == Lookup(color_bounds, chosen_color) IN
         IF e.raised # "none"
         THEN /\ fault' = e.raised
              /\ pc' = "RAISED"
              /\ UNCHANGED mask
         ELSE /\ mask' = SelectSeq(frame.scene,
                              LAMBDA b : inRange(b.hsv, e.entry.lower, e.entry.upper))
              /\ pc' = "FILTER_CONTOURS"
              /\ UNCHANGED fault
    /\ UNCHANGED <<cap, capOpens, windows, chosen_color, frame, min_contour_area, cnts,
                   shown, key, streams, reads, logStart>>

\* process_frame, lines 53-55: the external contours of the mask
\* variant: the call of draw_contours left out
FindContoursSkipDraw ==
    /\ pc = "FILTER_CONTOURS"
    /\ stages' = Append(stages, "FILTER_CONTOURS")
    /\ cnts' = [i \in 1..Len(mask) |-> mask[i].contour]
    /\ pc' = "DISPLAY"
    /\ UNCHANGED <<cap, capOpens, windows, chosen_color, frame, min_contour_area, mask,
                   shown, key, streams, reads, fault, logStart>>
FindContours ==
    /\ pc = "FILTER_CONTOURS"
    /\ stages' = Append(stages, "FILTER_CONTOURS")
    /\ cnts' = [i \in 1..Len(mask) |-> mask[i].contour]
    /\ pc' = "ANNOTATE"
    /\ UNCHANGED <<cap, capOpens, windows, chosen_color, frame, min_contour_area, mask,
                   shown, key, streams, reads, fault, logStart>>

\* main, line 95: frame = draw_contours(frame, cnts, min_contour_area)
Annotate ==
    /\ pc = "ANNOTATE"
    /\ stages' = Append(stages, "ANNOTATE")
    /\ LET r == draw_contours(frame, cnts, min_contour_area) IN
         /\ frame' = r.frame
         /\ streams' = log_all(streams, r.msgs, 1)
         /\ IF r.raised # "none"
            THEN fault' = r.raised /\ pc' = "RAISED"
            ELSE fault' = fault /\ pc' = "DISPLAY"
    /\ UNCHANGED <<cap, capOpens, windows, chosen_color, min_contour_area, mask, cnts,
                   shown, key, reads, logStart>>

\* main, line 97: cv2.imshow("Frame", frame)
Display ==
    /\ pc = "DISPLAY"
    /\ stages' = Append(stages, "DISPLAY")
    /\ shown' = frame
    /\ windows' = "open"
    /\ pc' = "CHECK_EXIT"
    /\ UNCHANGED <<cap, capOpens, chosen_color, frame, min_contour_area, mask, cnts,
                   key, streams, reads, fault, logStart>>

\* main, lines 98-99: poll the keyboard, leave the loop on 'q'
CheckExit ==
    /\ pc = "CHECK_EXIT"
    /\ stages' = Append(stages, "CHECK_EXIT")
    /\ \E k \in Keys :
         /\ key' = k
         /\ pc' = IF IsQuit(k) THEN "CLEANUP" ELSE "ACQUIRE"
    /\ UNCHANGED <<cap, capOpens, windows, chosen_color, frame, min_contour_area, mask,
                   cnts, shown, streams, reads, fault, logStart>>

\* main, lines 102-103: cap.release(); cv2.destroyAllWindows()
\* variant: the windows are closed but cap.release() is left out
CleanupNoRelease ==
    /\ pc = "CLEANUP"
    /\ windows' = "closed"
    /\ pc' = "DONE"
    /\ UNCHANGED <<cap, capOpens, chosen_color, frame, min_contour_area, mask, cnts,
                   shown, key, streams, reads, fault, stages, logStart>>
Cleanup ==
    /\ pc = "CLEANUP"
    /\ cap' = "released"
    /\ windows' = "closed"
    /\ pc' = "DONE"
    /\ UNCHANGED <<capOpens, chosen_color, frame, min_contour_area, mask, cnts, shown,
                   key, streams, reads, fault, stages, logStart>>

Next ==
    \/ OpenCamera
    \/ Acquire(ProgramScenes)
    \/ BuildMask
    \/ FindContours
    \/ Annotate
    \/ Display
    \/ CheckExit
    \/ Cleanup

NextEnv ==
    \/ OpenCamera
    \/ Acquire(EnvScenes)
    \/ BuildMask
    \/ FindContours
    \/ Annotate
    \/ Display
    \/ CheckExit
    \/ Cleanup

\* the program as written: colour 'blue', moments as cv2 computes them
Spec == Init /\ [][Next]_vars
\* the colour constant edited, and a moments primitive that may report m00 = 0
SpecEnv == InitEnv /\ [][NextEnv]_vars

(* ======================= properties of the program ====================== *)
\* Function-level cases do not depend on the state; they are evaluated once, in
\* the initial state (pc = "START").

\* the annotations and the log line draw_contours produces for one contour
Accepted(c, min_area) ==
    /\ c.area.num * min_area.den > min_area.num * c.area.den
    /\ c.radius.num > 10 * c.radius.den
OutlineOf(c) ==
    [center |-> <<int(c.x), int(c.y)>>, radius |-> int(c.radius),
     color |-> <<0, 255, 255>>, thickness |-> 5]
CentroidOf(c) == <<int(RatDiv(c.m10, c.m00)), int(RatDiv(c.m01, c.m00))>>
DotOf(c) ==
    [center |-> CentroidOf(c), radius |-> 5, color |-> <<0, 0, 255>>, thickness |-> -1]
MessageOf(c) == [text |-> "Center coordinates", center |-> CentroidOf(c)]
LineOf(c) == [name |-> "root", levelname |-> "INFO", message |-> MessageOf(c)]

\* the lines a stream received since the current iteration began
NewLines(h) == SubSeq(streams[h], logStart[h] + 1, Len(streams[h]))
FailedRead == reads > 0 /\ IsNone(frame)
BlankFrame == [id |-> 1, shape |-> <<480, 640, 3>>, scene |-> <<>>, marks |-> <<>>]
\* contours and thresholds for the function-level cases, among them an area equal
\* to the threshold (308 at 700x440, 0 at 0x0)
TestContours == {b.contour : b \in Blobs \cup {Area307Blob}}
TestThresholds ==
    {get_min_contour_area(640, 480), get_min_contour_area(700, 440),
     get_min_contour_area(0, 0)}
TestDims == {0, 1, 3, 240, 320, 480, 640, 720, 1280}
InLoopAfterAcquire ==
    pc \in {"BUILD_MASK", "FILTER_CONTOURS", "ANNOTATE", "DISPLAY", "CHECK_EXIT"}

C2_FixedStageOrder ==
    /\ Len(stages) <= Len(StageOrder)
    /\ \A i \in 1..Len(stages) : stages[i] = StageOrder[i]
    /\ \A k \in 2..Len(StageOrder) : pc = StageOrder[k] => Len(stages) = k - 1
    /\ pc = "ACQUIRE" /\ reads > 0 => stages = StageOrder
    /\ pc = "CHECK_EXIT" => shown = frame /\ shown.id = reads /\ ~IsNone(shown)
    /\ pc = "CLEANUP" =>
          \/ stages = <<"ACQUIRE">> /\ IsNone(frame)
          \/ stages = StageOrder /\ key % 256 = 113
C2_Witness ==
    /\ pc = "CHECK_EXIT"
    /\ reads = 2
    /\ shown.id = 2
    /\ Len(shown.marks) > 0

\* C3: a read that returns no frame ends the loop at once: in that iteration
\* nothing is resized, masked, filtered, annotated, logged, displayed or polled,
\* and no further read is issued.
C3_FailedReadEndsLoop ==
    /\ [](FailedRead =>
            /\ pc \in {"CLEANUP", "DONE"}
            /\ stages = <<"ACQUIRE">>
            /\ frame = NoFrame
            /\ \A h \in DOMAIN streams : Len(streams[h]) = logStart[h]
            /\ shown.id # reads)
    /\ [][FailedRead => (reads' = reads /\ frame' = frame /\ stages' = stages
                         /\ streams' = streams /\ shown' = shown /\ key' = key)]_vars
C3_Witness ==
    /\ FailedRead
    /\ pc = "DONE"
    /\ reads = 2
    /\ Len(streams["app.log"]) > 0

\* C4: a contour handed to draw_contours gets its outline circle, centroid dot and
\* log line exactly when its area is above the minimum and its radius above 10
\* (equality rejects in both tests), whatever else is in the list and in whatever
\* order.
C4_AcceptIffBothTests ==
    /\ pc = "DISPLAY" =>
          \A i \in 1..Len(cnts) :
             LET c == cnts[i] IN
             IF Accepted(c, min_contour_area)
             THEN /\ OutlineOf(c) \in Range(frame.marks)
                  /\ DotOf(c) \in Range(frame.marks)
                  /\ \A h \in DOMAIN streams : LineOf(c) \in Range(NewLines(h))
             ELSE /\ OutlineOf(c) \notin Range(frame.marks)
                  /\ c.m00.num # 0 =>
                        /\ DotOf(c) \notin Range(frame.marks)
                        /\ \A h \in DOMAIN streams : LineOf(c) \notin Range(NewLines(h))
    /\ pc = "START" => \A c \in TestContours, m \in TestThresholds :
          LET r == draw_contours(BlankFrame, <<c>>, m) IN
          IF Accepted(c, m)
          THEN r.frame.marks = <<OutlineOf(c), DotOf(c)>> /\ r.msgs = <<MessageOf(c)>>
          ELSE r.frame.marks = <<>> /\ r.msgs = <<>>
    /\ pc = "START" => \A c, d \in TestContours, m \in TestThresholds :
          LET both == draw_contours(BlankFrame, <<c, d>>, m)
              swapped == draw_contours(BlankFrame, <<d, c>>, m)
              one == draw_contours(BlankFrame, <<c>>, m)
              other == draw_contours(BlankFrame, <<d>>, m)
          IN /\ both.frame.marks = one.frame.marks \o other.frame.marks
             /\ swapped.frame.marks = other.frame.marks \o one.frame.marks
             /\ both.msgs = one.msgs \o other.msgs
C4_Witness ==
    /\ pc = "DISPLAY"
    /\ Len(cnts) = 2
    /\ cnts[1] = Radius10Blob.contour
    /\ cnts[2] = SmallBlob.contour
    /\ frame.marks = <<OutlineOf(cnts[2]), DotOf(cnts[2])>>

\* C5 as stated: with a colour that is not a key of the table no execution ends
\* normally; each fails with the lookup error before anything is annotated,
\* logged or displayed.
C5_NeverEndsNormally ==
    chosen_color \notin DOMAIN color_bounds =>
        /\ pc # "DONE"
        /\ frame.marks = <<>>
        /\ \A h \in DOMAIN streams : streams[h] = <<>>
        /\ IsNone(shown)
\* C5 amended: with a colour that is not a key of the table, the first frame that
\* is read makes main fail with the lookup error in process_frame, before any
\* mask is built and before anything is annotated, logged or displayed, and never
\* with another colour's bounds; an execution whose first read returns no frame
\* ends normally through cleanup without the error.
C5_FailsOnFirstFrame ==
    chosen_color \notin DOMAIN color_bounds =>
        /\ pc \in {"START", "ACQUIRE", "BUILD_MASK", "RAISED", "CLEANUP", "DONE"}
        /\ reads <= 1
        /\ frame.marks = <<>>
        /\ mask = <<>> /\ cnts = <<>>
        /\ \A h \in DOMAIN streams : streams[h] = <<>>
        /\ IsNone(shown) /\ windows # "open"
        /\ pc = "RAISED" <=> fault = "KeyError"
        /\ reads = 1 /\ ~IsNone(frame) => pc \in {"BUILD_MASK", "RAISED"}
        /\ pc \in {"CLEANUP", "DONE"} => FailedRead /\ fault = "none"
C5_Witness ==
    /\ chosen_color = "purple"
    /\ pc = "RAISED"
    /\ fault = "KeyError"
    /\ Len(frame.scene) > 0

\* C6: a contour that passed both tests but has a zero zeroth-order moment is
\* skipped (no centroid dot, no log line), the remaining contours are handled, and
\* no division fault leaves draw_contours.
C6_ZeroMomentSkipped ==
    /\ fault # "ZeroDivisionError"
    /\ pc = "DISPLAY" =>
          \A i \in 1..Len(cnts) :
             Accepted(cnts[i], min_contour_area) /\ cnts[i].m00.num # 0 =>
                 /\ DotOf(cnts[i]) \in Range(frame.marks)
                 /\ LineOf(cnts[i]) \in Range(NewLines("app.log"))

\* C7: after draw_contours the frame carries exactly one outline circle and one
\* centroid dot per accepted contour, and each log destination (console, file)
\* received exactly one Center coordinates line per accepted contour, in list
\* order; with no accepted contour there is no line and the frame is unmodified.
C7_OneLinePerDetection ==
    pc = "DISPLAY" =>
        LET acc == SelectSeq(cnts, LAMBDA c : Accepted(c, min_contour_area))
            lines == [i \in 1..Len(acc) |-> LineOf(acc[i])]
        IN /\ Len(frame.marks) = 2 * Len(acc)
           /\ \A i \in 1..Len(acc) :
                 /\ frame.marks[2 * i - 1] = OutlineOf(acc[i])
                 /\ frame.marks[2 * i] = DotOf(acc[i])
           /\ NewLines("app.log") = lines
           /\ NewLines("stderr") = lines

\* C8: the loop is left only after a read that returned no frame or a polled key
\* whose low byte is 'q'; either event leads to cleanup and the end of main with
\* no further read; any other poll result sends the loop back to ACQUIRE.
C8_OnlyTwoExits ==
    /\ [](pc \in {"CLEANUP", "DONE"} => (FailedRead \/ key % 256 = 113))
    /\ [](pc \notin {"START", "ACQUIRE", "BUILD_MASK", "FILTER_CONTOURS", "ANNOTATE",
                     "DISPLAY", "CHECK_EXIT"} => pc \in {"CLEANUP", "DONE"})
    /\ [][pc = "CHECK_EXIT" =>
             /\ pc' = "CLEANUP" <=> key' % 256 = 113
             /\ pc' = "ACQUIRE" <=> key' % 256 # 113]_vars
    /\ [][pc = "ACQUIRE" => (pc' = "CLEANUP" <=> IsNone(frame'))]_vars
    /\ [][(pc = "CLEANUP" \/ pc = "DONE") => (pc' = "DONE" /\ reads' = reads)]_vars
C8_Witness ==
    /\ pc = "ACQUIRE"
    /\ reads = 1
    /\ key = 97

\* C9: get_min_contour_area(w, h) is w*h/1000 exactly and non-decreasing in w and
\* in h; every frame is 640x480 when the threshold is computed, so the threshold
\* in the loop is always 307.2: area 307 is rejected, area 308 passes the area test.
C9_ThresholdExact ==
    /\ pc = "START" => \A w, h \in TestDims :
          LET m == get_min_contour_area(w, h) IN
          /\ m.den > 0
          /\ m.num * 1000 = w * h * m.den
    /\ pc = "START" => \A w1, w2, h \in TestDims :
          w1 <= w2 =>
             /\ ~RatGT(get_min_contour_area(w1, h), get_min_contour_area(w2, h))
             /\ ~RatGT(get_min_contour_area(h, w1), get_min_contour_area(h, w2))
    /\ InLoopAfterAcquire =>
          /\ frame.shape = <<480, 640, 3>>
          /\ min_contour_area.num * 10 = 3072 * min_contour_area.den
          /\ draw_contours(BlankFrame, <<Area307Blob.contour>>,
                           min_contour_area).frame.marks = <<>>
          /\ draw_contours(BlankFrame, <<SmallBlob.contour>>,
                           min_contour_area).frame.marks # <<>>
C9_Witness ==
    /\ pc = "DISPLAY"
    /\ reads = 2
    /\ cnts = <<SmallBlob.contour>>
    /\ Len(frame.marks) = 2

\* C10: the centroid division runs only for a contour with area above the minimum
\* and radius above 10; the minimum is never negative, so a contour of area zero
\* never reaches it, and when every contour's zeroth moment equals its area no
\* division by zero occurs.
C10_DivisionGuardedByArea ==
    /\ pc = "START" => \A w, h \in TestDims : get_min_contour_area(w, h).num >= 0
    /\ pc \notin {"START", "ACQUIRE"} /\ ~IsNone(frame) => min_contour_area.num >= 0
    /\ pc \in {"DISPLAY", "RAISED"} =>
          \A i \in 1..Len(cnts) :
             OutlineOf(cnts[i]) \in Range(frame.marks) =>
                 /\ Accepted(cnts[i], min_contour_area)
                 /\ cnts[i].area.num # 0
    /\ (\A i \in 1..Len(cnts) : RatEq(cnts[i].m00, cnts[i].area)) =>
          fault # "ZeroDivisionError"
C10_Witness ==
    /\ pc = "DISPLAY"
    /\ Len(cnts) = 2
    /\ cnts[1] = LineBlob.contour
    /\ cnts[2] = DiskBlob.contour
    /\ frame.marks = <<OutlineOf(cnts[2]), DotOf(cnts[2])>>
====
